---- MODULE Spec2Model ----
(***************************************************************************)
(* MessagePack <-> JSON codec of HackHow/messagepack-project.              *)
(*                                                                         *)
(* Encoder: src/unnamed/part_000 (the snapshot that sorts map keys).       *)
(* Decoder: src/pkg/msgpack/decode.go, lines 185-411 (the snapshot that    *)
(* checks every read error).                                               *)
(*                                                                         *)
(* A byte is a number in 0..255.  A 64-bit word (Go int64, uint64 or the   *)
(* bit pattern of a float64) is a tuple of 8 bytes, most significant byte  *)
(* first: the checker's integers are 32 bits wide, and the byte tuple is   *)
(* exactly the big-endian payload that the codec writes and reads.         *)
(*                                                                         *)
(* A []byte or string of any length is held as its runs: a sequence of     *)
(* <<end, byte>> pairs, the index of the last byte of the run and the byte *)
(* it repeats, with no two neighbouring runs of the same byte, so that     *)
(* equal byte strings have equal representations.                          *)
(***************************************************************************)
EXTENDS Integers, Sequences, FiniteSets, TLC

(***************************************************************************)
(* Byte strings ([]byte, string, bytes.Buffer contents) as runs            *)
(***************************************************************************)
\* len(s)
BLen(r) == IF r = <<>> THEN 0 ELSE r[Len(r)][1]

\* the run that holds the i-th byte, for 1 <= i <= len(s)
RunOf(r, i) ==
    CHOOSE k \in 1..Len(r) : r[k][1] >= i /\ (k = 1 \/ r[k - 1][1] < i)

\* s[i-1], the i-th byte, for 1 <= i <= len(s)
BAt(r, i) == r[RunOf(r, i)][2]

\* append(r, s...): concatenation
BCat(r, s) ==
    IF r = <<>> THEN s
    ELSE IF s = <<>> THEN r
    ELSE LET moved == [j \in 1..Len(s) |-> <<s[j][1] + BLen(r), s[j][2]>>] IN
         IF r[Len(r)][2] = s[1][2]
         THEN SubSeq(r, 1, Len(r) - 1) \o moved
         ELSE r \o moved

\* the byte string of a tuple of bytes
RECURSIVE Bytes(_)
Bytes(seq) ==
    IF seq = <<>> THEN <<>>
    ELSE IF Len(seq) = 1 THEN <<<<1, seq[1]>>>>
    ELSE LET h == Len(seq) \div 2 IN
         BCat(Bytes(SubSeq(seq, 1, h)), Bytes(SubSeq(seq, h + 1, Len(seq))))

\* s[:k] and s[k:], for 0 <= k <= len(s)
BTake(r, k) ==
    IF k = 0 THEN <<>>
    ELSE LET m == RunOf(r, k) IN SubSeq(r, 1, m - 1) \o <<<<k, r[m][2]>>>>
BDrop(r, k) ==
    IF k >= BLen(r) THEN <<>>
    ELSE LET m == RunOf(r, k + 1) IN
         [j \in 1..(Len(r) - m + 1) |-> <<r[m + j - 1][1] - k, r[m + j - 1][2]>>]

\* the n bytes s[m : m+n] as a tuple of bytes
Plain(r, m, n) == [i \in 1..n |-> BAt(r, m + i)]

\* a string of L bytes c
BFill(L, c) == IF L = 0 THEN <<>> ELSE <<<<L, c>>>>

(***************************************************************************)
(* 64-bit words                                                            *)
(***************************************************************************)
Pow2(k) == 2 ^ k

\* bit i (0 = least significant) of the word w
BitOf(w, i) == (w[8 - (i \div 8)] \div Pow2(i % 8)) % 2

\* the word whose bit i is f[i], for f a function on 0..63
FromBits(f) ==
    [k \in 1..8 |->
        LET base == 8 * (8 - k) IN
        f[base] + 2 * f[base + 1] + 4 * f[base + 2] + 8 * f[base + 3]
        + 16 * f[base + 4] + 32 * f[base + 5] + 64 * f[base + 6]
        + 128 * f[base + 7]]

Zero64 == <<0, 0, 0, 0, 0, 0, 0, 0>>
MinInt64 == <<128, 0, 0, 0, 0, 0, 0, 0>>
MaxInt64 == <<127, 255, 255, 255, 255, 255, 255, 255>>

\* the int64 with the value of the 32-bit integer k (a Go integer constant)
I64(k) ==
    IF k >= 0
    THEN <<0, 0, 0, 0, k \div 16777216, (k \div 65536) % 256,
           (k \div 256) % 256, k % 256>>
    ELSE LET m == k + 2147483647 + 1 IN
         <<255, 255, 255, 255, 128 + (m \div 16777216), (m \div 65536) % 256,
           (m \div 256) % 256, m % 256>>

\* a < b, a <= b as unsigned 64-bit numbers (Go uint64 comparison)
ULt(a, b) == \E i \in 1..8 : a[i] < b[i] /\ \A j \in 1..(i - 1) : a[j] = b[j]
ULe(a, b) == a = b \/ ULt(a, b)

\* a < b, a <= b as two's-complement numbers (Go int64 comparison)
Flip(a) == [a EXCEPT ![1] = (a[1] + 128) % 256]
SLt(a, b) == ULt(Flip(a), Flip(b))
SLe(a, b) == a = b \/ SLt(a, b)

\* -a modulo 2^64
Neg64(a) ==
    FromBits([i \in 0..63 |->
        IF \A j \in 0..(i - 1) : BitOf(a, j) = 0
        THEN BitOf(a, i)
        ELSE 1 - BitOf(a, i)])

\* byte(n >> (8 * i)): byte i of the word, 0 = least significant
ByteAt(n, i) == n[8 - i]

\* sign extension of the low `size` bytes of a big-endian byte tuple
SignExtend(bs) ==
    LET fill == IF bs[1] >= 128 THEN 255 ELSE 0 IN
    [k \in 1..8 |-> IF k <= 8 - Len(bs) THEN fill ELSE bs[k - (8 - Len(bs))]]

\* zero extension of a big-endian byte tuple
ZeroExtend(bs) ==
    [k \in 1..8 |-> IF k <= 8 - Len(bs) THEN 0 ELSE bs[k - (8 - Len(bs))]]

(***************************************************************************)
(* float64 as its IEEE-754 bit pattern                                     *)
(***************************************************************************)
SignBit(f) == f[1] \div 128
BiasedExp(f) == (f[1] % 128) * 16 + (f[2] \div 16)
IsFinite(f) == BiasedExp(f) # 2047

\* float64(n) for an unsigned magnitude mag and a sign: round to nearest even
MagToF64(mag, sign) ==
    IF mag = Zero64 THEN Zero64
    ELSE
    LET p == CHOOSE i \in 0..63 :
                 BitOf(mag, i) = 1 /\ \A j \in (i + 1)..63 : BitOf(mag, j) = 0
        sh == p - 52
        m0 == [i \in 0..52 |-> IF i + sh \in 0..63 THEN BitOf(mag, i + sh) ELSE 0]
        guard == sh >= 1 /\ BitOf(mag, sh - 1) = 1
        sticky == \E j \in 0..(sh - 2) : BitOf(mag, j) = 1
        up == guard /\ (sticky \/ m0[0] = 1)
        carry == up /\ \A i \in 0..52 : m0[i] = 1
        m1 == [i \in 0..52 |->
                 IF ~up THEN m0[i]
                 ELSE IF \A j \in 0..(i - 1) : m0[j] = 1 THEN 1 - m0[i] ELSE m0[i]]
        ex == p + 1023 + (IF carry THEN 1 ELSE 0)
    IN  FromBits([i \in 0..63 |->
            IF i = 63 THEN sign
            ELSE IF i >= 52 THEN (ex \div Pow2(i - 52)) % 2
            ELSE m1[i]])

\* float64(n) for n int64
I64ToF64(n) ==
    IF n[1] >= 128 THEN MagToF64(Neg64(n), 1) ELSE MagToF64(n, 0)

\* float64(n) for n uint64
U64ToF64(n) == MagToF64(n, 0)

\* What int64(val) yields when val is outside the int64 range (or NaN): the Go
\* specification leaves it to the implementation.  amd64 (CVTTSD2SQ) yields
\* the "integer indefinite" 0x8000000000000000; arm64 (FCVTZS) saturates and
\* maps NaN to 0.
Archs == {"amd64", "arm64"}
OutOfRangeI64(f, arch) ==
    IF arch = "amd64" THEN MinInt64
    ELSE IF ~IsFinite(f) /\ (f[2] % 16 # 0 \/ \E k \in 3..8 : f[k] # 0) THEN Zero64
    ELSE IF SignBit(f) = 1 THEN MinInt64 ELSE MaxInt64

\* int64(val): truncation toward zero
F64ToI64(f, arch) ==
    LET e == BiasedExp(f) - 1023 IN
    IF e < 0 THEN Zero64
    ELSE IF e >= 63
    THEN IF f = <<195, 224, 0, 0, 0, 0, 0, 0>> THEN MinInt64
         ELSE OutOfRangeI64(f, arch)
    ELSE LET mag == FromBits([j \in 0..63 |->
                        IF j = e THEN 1
                        ELSE IF j - (e - 52) \in 0..51 THEN BitOf(f, j - (e - 52))
                        ELSE 0])
         IN  IF SignBit(f) = 1 THEN Neg64(mag) ELSE mag

\* val == other for two float64: NaN differs from everything, -0 equals +0
F64Eq(f, g) ==
    LET nan(x) == ~IsFinite(x) /\ (x[2] % 16 # 0 \/ \E k \in 3..8 : x[k] # 0)
        zero(x) == x[1] % 128 = 0 /\ \A k \in 2..8 : x[k] = 0
    IN  /\ ~nan(f)
        /\ ~nan(g)
        /\ (f = g \/ (zero(f) /\ zero(g)))

(***************************************************************************)
(* Go values (interface{}) carried by the codec                            *)
(***************************************************************************)
Nil == [t |-> "nil"]
Bool(b) == [t |-> "bool", b |-> b]
Float64(w) == [t |-> "float64", w |-> w]
Float32(w) == [t |-> "float32", w |-> w]
IntVal(t, w) == [t |-> t, w |-> w]
Str(s) == [t |-> "string", s |-> s]
Arr(a) == [t |-> "array", a |-> a]
Map(m) == [t |-> "map", m |-> m]
\* a Go value of a kind the codec does not know (a struct, a channel, ...)
Other == [t |-> "struct"]

SignedKinds == {"int", "int8", "int16", "int32", "int64"}
UnsignedKinds == {"uint", "uint8", "uint16", "uint32", "uint64"}

\* Go string comparison a < b: bytewise lexicographic
StrLt(a, b) ==
    \E i \in 1..BLen(b) :
        /\ \A j \in 1..(i - 1) : j <= BLen(a) /\ BAt(a, j) = BAt(b, j)
        /\ (i = BLen(a) + 1 \/ (i <= BLen(a) /\ BAt(a, i) < BAt(b, i)))

\* the keys of a map listed one after the other
RECURSIVE KeyList(_)
KeyList(S) ==
    IF S = {} THEN <<>>
    ELSE LET least == CHOOSE x \in S : \A y \in S \ {x} : StrLt(x, y)
         IN  <<least>> \o KeyList(S \ {least})

\* a sequence without its i-th element
Without(seq, i) == SubSeq(seq, 1, i - 1) \o SubSeq(seq, i + 1, Len(seq))

\* the order the seed puts a list in: every order of n elements is the
\* order of exactly one seed in 0..(n! - 1)
RECURSIVE Shuffle(_, _)
Shuffle(seq, seed) ==
    IF seq = <<>> THEN <<>>
    ELSE LET i == (seed % Len(seq)) + 1 IN
         <<seq[i]>> \o Shuffle(Without(seq, i), seed \div Len(seq))

\* for k := range val { keys = append(keys, k) }: Go leaves the iteration
\* order of a map unspecified; the seed stands for the runtime's choice
rangeKeys(m, seed) == Shuffle(KeyList(DOMAIN m), seed)

\* sort.Strings(keys) left out
SortStringsSkipped(keys) == keys

\* sort.Strings(keys)
RECURSIVE SortStrings(_)
SortStrings(keys) ==
    IF keys = <<>> THEN <<>>
    ELSE LET i == CHOOSE i \in 1..Len(keys) :
                      \A j \in 1..Len(keys) : ~StrLt(keys[j], keys[i])
         IN  <<keys[i]>> \o SortStrings(Without(keys, i))

(***************************************************************************)
(* Encoder                                                                 *)
(***************************************************************************)
FixIntMax == 127
FixStrMax == 31
Str8Max == 255
FixLenMax == 15
Len16Max == 65535

\* the low `k` bytes of n, most significant first: byte(n >> 8(k-1)), ..., byte(n)
LowBytes(n, k) == [i \in 1..k |-> ByteAt(n, k - i)]

\* encodeSignedInt with the negative fixint test off by one (n > -32)
encodeSignedIntOffByOne(n) ==
    IF SLe(Zero64, n)
    THEN IF SLe(n, I64(FixIntMax)) THEN <<ByteAt(n, 0)>>
         ELSE IF SLe(n, I64(255)) THEN <<208>> \o LowBytes(n, 1)
         ELSE IF SLe(n, I64(32767)) THEN <<209>> \o LowBytes(n, 2)
         ELSE IF SLe(n, I64(2147483647)) THEN <<210>> \o LowBytes(n, 4)
         ELSE <<211>> \o LowBytes(n, 8)
    ELSE IF SLt(I64(-32), n) THEN <<224 + ((ByteAt(n, 0) + 32) % 256)>>
         ELSE IF SLe(I64(-128), n) THEN <<208>> \o LowBytes(n, 1)
         ELSE IF SLe(I64(-32768), n) THEN <<209>> \o LowBytes(n, 2)
         ELSE IF SLe(I64(-2147483647 - 1), n) THEN <<210>> \o LowBytes(n, 4)
         ELSE <<211>> \o LowBytes(n, 8)

encodeSignedInt(n) ==
    IF SLe(Zero64, n)
    THEN IF SLe(n, I64(FixIntMax)) THEN <<ByteAt(n, 0)>>
         ELSE IF SLe(n, I64(255)) THEN <<208>> \o LowBytes(n, 1)
         ELSE IF SLe(n, I64(32767)) THEN <<209>> \o LowBytes(n, 2)
         ELSE IF SLe(n, I64(2147483647)) THEN <<210>> \o LowBytes(n, 4)
         ELSE <<211>> \o LowBytes(n, 8)
    ELSE IF SLe(I64(-32), n) THEN <<224 + ((ByteAt(n, 0) + 32) % 256)>>
         ELSE IF SLe(I64(-128), n) THEN <<208>> \o LowBytes(n, 1)
         ELSE IF SLe(I64(-32768), n) THEN <<209>> \o LowBytes(n, 2)
         ELSE IF SLe(I64(-2147483647 - 1), n) THEN <<210>> \o LowBytes(n, 4)
         ELSE <<211>> \o LowBytes(n, 8)

encodeUnsignedInt(n) ==
    IF ULe(n, I64(FixIntMax)) THEN <<ByteAt(n, 0)>>
    ELSE IF ULe(n, <<0, 0, 0, 0, 0, 0, 0, 255>>) THEN <<204>> \o LowBytes(n, 1)
    ELSE IF ULe(n, <<0, 0, 0, 0, 0, 0, 255, 255>>) THEN <<205>> \o LowBytes(n, 2)
    ELSE IF ULe(n, <<0, 0, 0, 0, 255, 255, 255, 255>>) THEN <<206>> \o LowBytes(n, 4)
    ELSE <<207>> \o LowBytes(n, 8)

\* the header of a string of strLen bytes
strHeader(strLen) ==
    IF strLen <= FixStrMax THEN <<160 + strLen>>
    ELSE IF strLen <= Str8Max THEN <<217, strLen % 256>>
    ELSE <<218, (strLen \div 256) % 256, strLen % 256>>

\* the header of an array (fix = 0x90, t16 = 0xdc, t32 = 0xdd) or of a map
\* (fix = 0x80, t16 = 0xde, t32 = 0xdf) of `length` entries
lenHeader(fix, t16, t32, length) ==
    IF length <= FixLenMax THEN <<fix + length>>
    ELSE IF length <= Len16Max THEN <<t16, (length \div 256) % 256, length % 256>>
    ELSE <<t32, (length \div 16777216) % 256, (length \div 65536) % 256,
           (length \div 256) % 256, length % 256>>

EncOk(out) == [err |-> "", out |-> out]
EncFail(e, out) == [err |-> e, out |-> out]

RECURSIVE encodeValue(_, _, _), encodeElems(_, _, _, _), encodePairs(_, _, _, _, _)

\* encodeValue(buf, v): the error returned and the bytes written to buf
encodeValue(v, arch, seed) ==
    CASE v.t = "nil" -> EncOk(Bytes(<<192>>))
      [] v.t = "bool" -> EncOk(Bytes(IF v.b THEN <<195>> ELSE <<194>>))
      [] v.t = "float64" ->
            IF F64Eq(v.w, I64ToF64(F64ToI64(v.w, arch)))
            THEN EncOk(Bytes(encodeSignedInt(F64ToI64(v.w, arch))))
            ELSE EncOk(Bytes(<<203>> \o v.w))
      [] v.t = "float32" -> EncOk(Bytes(<<202>> \o v.w))
      [] v.t = "string" -> EncOk(BCat(Bytes(strHeader(BLen(v.s))), v.s))
      [] v.t \in SignedKinds -> EncOk(Bytes(encodeSignedInt(v.w)))
      [] v.t \in UnsignedKinds -> EncOk(Bytes(encodeUnsignedInt(v.w)))
      [] v.t = "array" ->
            encodeElems(v.a, arch, seed, Bytes(lenHeader(144, 220, 221, Len(v.a))))
      [] v.t = "map" ->
            encodePairs(SortStrings(rangeKeys(v.m, seed)), v.m, arch, seed,
                        Bytes(lenHeader(128, 222, 223, Cardinality(DOMAIN v.m))))
      [] OTHER -> EncFail("unsupported type", <<>>)

\* for _, elem := range val { encodeValue(buf, elem) }, after `out` was written
encodeElems(elems, arch, seed, out) ==
    IF elems = <<>> THEN EncOk(out)
    ELSE LET r == encodeValue(Head(elems), arch, seed) IN
         IF r.err # "" THEN EncFail(r.err, BCat(out, r.out))
         ELSE encodeElems(Tail(elems), arch, seed, BCat(out, r.out))

\* for _, k := range keys { encodeValue(buf, k); encodeValue(buf, val[k]) }
encodePairs(keys, m, arch, seed, out) ==
    IF keys = <<>> THEN EncOk(out)
    ELSE LET k == encodeValue(Str(Head(keys)), arch, seed)
             r == encodeValue(m[Head(keys)], arch, seed)
         IN  IF r.err # "" THEN EncFail(r.err, BCat(BCat(out, k.out), r.out))
             ELSE encodePairs(Tail(keys), m, arch, seed,
                              BCat(BCat(out, k.out), r.out))

\* json.Unmarshal(jsonData, &v): a JSON text is modelled by what the parser
\* makes of it, an error (valid = FALSE) or a value tree
\* EncodeJSONToMsgPack: (bytes, error)
EncodeJSONToMsgPack(jsonData, arch, seed) ==
    IF ~jsonData.valid THEN [err |-> "json", out |-> <<>>]
    ELSE LET r == encodeValue(jsonData.v, arch, seed) IN
         IF r.err # "" THEN [err |-> r.err, out |-> <<>>]
         ELSE [err |-> "", out |-> r.out]

(***************************************************************************)
(* The encoder that ranges over the map itself (the other encode.go of the *)
(* repository): it differs in the map case only                            *)
(***************************************************************************)
RECURSIVE encodeValueRange(_, _, _), encodeElemsRange(_, _, _, _)
RECURSIVE encodePairsRange(_, _, _, _, _)

encodeValueRange(v, arch, seed) ==
    CASE v.t = "array" ->
            encodeElemsRange(v.a, arch, seed,
                             Bytes(lenHeader(144, 220, 221, Len(v.a))))
      [] v.t = "map" ->
            encodePairsRange(rangeKeys(v.m, seed), v.m, arch, seed,
                             Bytes(lenHeader(128, 222, 223, Cardinality(DOMAIN v.m))))
      [] OTHER -> encodeValue(v, arch, seed)

encodeElemsRange(elems, arch, seed, out) ==
    IF elems = <<>> THEN EncOk(out)
    ELSE LET r == encodeValueRange(Head(elems), arch, seed) IN
         IF r.err # "" THEN EncFail(r.err, BCat(out, r.out))
         ELSE encodeElemsRange(Tail(elems), arch, seed, BCat(out, r.out))

\* for k, v := range val { encodeValue(buf, k); encodeValue(buf, v) }
encodePairsRange(keys, m, arch, seed, out) ==
    IF keys = <<>> THEN EncOk(out)
    ELSE LET k == encodeValueRange(Str(Head(keys)), arch, seed)
             r == encodeValueRange(m[Head(keys)], arch, seed)
         IN  IF r.err # "" THEN EncFail(r.err, BCat(BCat(out, k.out), r.out))
             ELSE encodePairsRange(Tail(keys), m, arch, seed,
                                   BCat(BCat(out, k.out), r.out))

EncodeJSONToMsgPackRange(jsonData, arch, seed) ==
    IF ~jsonData.valid THEN [err |-> "json", out |-> <<>>]
    ELSE LET r == encodeValueRange(jsonData.v, arch, seed) IN
         IF r.err # "" THEN [err |-> r.err, out |-> <<>>]
         ELSE [err |-> "", out |-> r.out]

(***************************************************************************)
(* Decoder.  The bytes.Buffer is the data and the read offset `pos`;       *)
(* buf.Len() is Len(buf) - pos.  A result carries the error ("" for nil),  *)
(* the byte an "unsupported byte" error names, the value, and the offset   *)
(* at which the buffer is left.                                            *)
(***************************************************************************)
Ok(v, pos) == [err |-> "", bad |-> -1, val |-> v, pos |-> pos]
Fail(e, pos) == [err |-> e, bad |-> -1, val |-> Nil, pos |-> pos]

\* buf.ReadByte(): io.EOF when nothing is left
ReadByte(buf, pos) ==
    IF BLen(buf) - pos = 0 THEN [err |-> "EOF", b |-> 0, pos |-> pos]
    ELSE [err |-> "", b |-> BAt(buf, pos + 1), pos |-> pos + 1]

safeReadN(buf, pos, n) ==
    IF BLen(buf) - pos < n THEN [err |-> "unexpected EOF", bs |-> <<>>, pos |-> pos]
    ELSE [err |-> "", bs |-> BTake(BDrop(buf, pos), n), pos |-> pos + n]

\* readString that looks at the bytes without taking them from the buffer
readStringPeek(buf, pos, length) ==
    LET r == safeReadN(buf, pos, length) IN
    IF r.err # "" THEN Fail(r.err, r.pos) ELSE Ok(Str(r.bs), pos)

readString(buf, pos, length) ==
    LET r == safeReadN(buf, pos, length) IN
    IF r.err # "" THEN Fail(r.err, r.pos) ELSE Ok(Str(r.bs), r.pos)

\* int(bs[0])<<8 | int(bs[1])
Len16(bs) == bs[1] * 256 + bs[2]

\* int(bs[0])<<24 | int(bs[1])<<16 | int(bs[2])<<8 | int(bs[3]) with a 64-bit
\* int.  A length of 2^31 or more is held as 2^31 - 1: it is only compared
\* with a loop index that stays below the number of bytes of the buffer.
Len32(bs) ==
    IF bs[1] >= 128 THEN 2147483647
    ELSE bs[1] * 16777216 + bs[2] * 65536 + bs[3] * 256 + bs[4]

decodeFloat64(bs) == Float64(bs)

\* fixKind with the test of the negative fixint range off by one (b > 0xe0)
fixKindOffByOne(b) ==
    CASE b <= 127 -> "positive fixint"
      [] b > 224 -> "negative fixint"
      [] b >= 160 /\ b <= 191 -> "fixstr"
      [] b >= 144 /\ b <= 159 -> "fixarray"
      [] b >= 128 /\ b <= 143 -> "fixmap"
      [] OTHER -> "none"

\* the first switch of decodeValue: the tag families that carry a value or a
\* length in the tag byte itself
fixKind(b) ==
    CASE b <= 127 -> "positive fixint"
      [] b >= 224 -> "negative fixint"
      [] b >= 160 /\ b <= 191 -> "fixstr"
      [] b >= 144 /\ b <= 159 -> "fixarray"
      [] b >= 128 /\ b <= 143 -> "fixmap"
      [] OTHER -> "none"

RECURSIVE decodeValue(_, _), readArrayFrom(_, _, _, _, _), readMapFrom(_, _, _, _, _)

\* readArray whose loop also stops when the buffer is used up
\* (i < length && buf.Len() > 0): a declared length above the bytes left
\* gives a shorter array instead of an error
readArrayStopAtEnd(buf, pos, length) ==
    readArrayFrom(buf, pos, 0,
                  IF length > BLen(buf) - pos THEN BLen(buf) - pos ELSE length, <<>>)

readArray(buf, pos, length) == readArrayFrom(buf, pos, 0, length, <<>>)

readMap(buf, pos, length) == readMapFrom(buf, pos, 0, length, <<>>)

decodeValue(buf, pos) ==
    IF BLen(buf) - pos = 0 THEN Fail("empty buffer", pos)
    ELSE
    LET b == BAt(buf, pos + 1)
        p == pos + 1
        \* the fixed-width payload of n bytes, read with safeReadN
        fixed(n, make(_)) ==
            LET r == safeReadN(buf, p, n) IN
            IF r.err # "" THEN Fail(r.err, r.pos)
            ELSE Ok(make(Plain(r.bs, 0, n)), r.pos)
        \* the one-byte payload, read with buf.ReadByte
        one(make(_)) ==
            LET r == ReadByte(buf, p) IN
            IF r.err # "" THEN Fail(r.err, r.pos) ELSE Ok(make(r.b), r.pos)
        \* a length field of n bytes followed by a body
        sized(n, length(_), body(_, _, _)) ==
            LET r == safeReadN(buf, p, n) IN
            IF r.err # "" THEN Fail(r.err, r.pos)
            ELSE body(buf, r.pos, length(Plain(r.bs, 0, n)))
        u64(bs) == IntVal("uint64", ZeroExtend(bs))
        u8(v) == IntVal("uint64", ZeroExtend(<<v>>))
        i8(v) == IntVal("int8", SignExtend(<<v>>))
        i16(bs) == IntVal("int16", SignExtend(bs))
        i32(bs) == IntVal("int32", SignExtend(bs))
        i64(bs) == IntVal("int64", bs)
        f32(bs) == Float32(bs)
    IN
    CASE fixKind(b) = "positive fixint" -> Ok(IntVal("int64", ZeroExtend(<<b>>)), p)
      [] fixKind(b) = "negative fixint" -> Ok(IntVal("int64", SignExtend(<<b>>)), p)
      [] fixKind(b) = "fixstr" -> readString(buf, p, b % 32)
      [] fixKind(b) = "fixarray" -> readArray(buf, p, b % 16)
      [] fixKind(b) = "fixmap" -> readMap(buf, p, b % 16)
      [] b = 192 -> Ok(Nil, p)
      [] b = 194 -> Ok(Bool(FALSE), p)
      [] b = 195 -> Ok(Bool(TRUE), p)
      [] b = 204 -> one(u8)
      [] b = 205 -> fixed(2, u64)
      [] b = 206 -> fixed(4, u64)
      [] b = 207 -> fixed(8, u64)
      [] b = 208 -> one(i8)
      [] b = 209 -> fixed(2, i16)
      [] b = 210 -> fixed(4, i32)
      [] b = 211 -> fixed(8, i64)
      [] b = 202 -> fixed(4, f32)
      [] b = 203 -> fixed(8, decodeFloat64)
      [] b = 217 ->
            LET r == ReadByte(buf, p) IN
            IF r.err # "" THEN Fail(r.err, r.pos) ELSE readString(buf, r.pos, r.b)
      [] b = 218 -> sized(2, Len16, readString)
      [] b = 220 -> sized(2, Len16, readArray)
      [] b = 221 -> sized(4, Len32, readArray)
      [] b = 222 -> sized(2, Len16, readMap)
      [] b = 223 -> sized(4, Len32, readMap)
      [] OTHER -> [err |-> "unsupported byte", bad |-> b, val |-> Nil, pos |-> p]

\* for i := 0; i < length; i++ { val, err := decodeValue(buf); arr = append(arr, val) }
readArrayFrom(buf, pos, i, length, arr) ==
    IF ~(i < length) THEN Ok(Arr(arr), pos)
    ELSE LET r == decodeValue(buf, pos) IN
         IF r.err # "" THEN r
         ELSE readArrayFrom(buf, r.pos, i + 1, length, Append(arr, r.val))

\* readMap without the key.(string) check: a key of another type is turned
\* into the string "?"
readMapFromCoerce(buf, pos, i, length, m) ==
    IF ~(i < length) THEN Ok(Map(m), pos)
    ELSE LET k == decodeValue(buf, pos) IN
         IF k.err # "" THEN k
         ELSE LET key == IF k.val.t = "string" THEN k.val.s ELSE <<63>>
                  r == decodeValue(buf, k.pos)
              IN  IF r.err # "" THEN r
                  ELSE readMapFrom(buf, r.pos, i + 1, length,
                           [x \in DOMAIN m \cup {key} |->
                               IF x = key THEN r.val ELSE m[x]])

\* readMap that keeps the first value of a key that comes again
readMapFromKeepFirst(buf, pos, i, length, m) ==
    IF ~(i < length) THEN Ok(Map(m), pos)
    ELSE LET k == decodeValue(buf, pos) IN
         IF k.err # "" THEN k
         ELSE IF k.val.t # "string" THEN Fail("non-string map key", k.pos)
         ELSE LET r == decodeValue(buf, k.pos) IN
              IF r.err # "" THEN r
              ELSE readMapFrom(buf, r.pos, i + 1, length,
                       [x \in DOMAIN m \cup {k.val.s} |->
                           IF x \in DOMAIN m THEN m[x] ELSE r.val])

\* for i := 0; i < length; i++ { key; key.(string); val; m[key] = val }
readMapFrom(buf, pos, i, length, m) ==
    IF ~(i < length) THEN Ok(Map(m), pos)
    ELSE LET k == decodeValue(buf, pos) IN
         IF k.err # "" THEN k
         ELSE IF k.val.t # "string" THEN Fail("non-string map key", k.pos)
         ELSE LET r == decodeValue(buf, k.pos) IN
              IF r.err # "" THEN r
              ELSE readMapFrom(buf, r.pos, i + 1, length,
                       [x \in DOMAIN m \cup {k.val.s} |->
                           IF x = k.val.s THEN r.val ELSE m[x]])

(***************************************************************************)
(* The first decodeValue of decode.go: it drops the error of every read of *)
(* a payload or length field (`bs, _ := safeReadN(buf, n)`,                *)
(* `v, _ := buf.ReadByte()`).  A failed safeReadN leaves bs nil and the    *)
(* bs[0] that follows panics (index out of range); a failed ReadByte       *)
(* leaves v = 0.                                                           *)
(***************************************************************************)
Panic(pos) == Fail("panic: index out of range", pos)

RECURSIVE decodeValueV1(_, _), readArrayFromV1(_, _, _, _, _)
RECURSIVE readMapFromV1(_, _, _, _, _)

readArrayV1(buf, pos, length) == readArrayFromV1(buf, pos, 0, length, <<>>)

readMapV1(buf, pos, length) == readMapFromV1(buf, pos, 0, length, <<>>)

decodeValueV1(buf, pos) ==
    IF BLen(buf) - pos = 0 THEN Fail("empty buffer", pos)
    ELSE
    LET b == BAt(buf, pos + 1)
        p == pos + 1
        \* bs, _ := safeReadN(buf, n); then bs[0] ... bs[n-1] are used
        fixed(n, make(_)) ==
            LET r == safeReadN(buf, p, n) IN
            IF r.err # "" THEN Panic(r.pos)
            ELSE Ok(make(Plain(r.bs, 0, n)), r.pos)
        \* v, _ := buf.ReadByte()
        one(make(_)) == LET r == ReadByte(buf, p) IN Ok(make(r.b), r.pos)
        sized(n, length(_), body(_, _, _)) ==
            LET r == safeReadN(buf, p, n) IN
            IF r.err # "" THEN Panic(r.pos)
            ELSE body(buf, r.pos, length(Plain(r.bs, 0, n)))
        u64(bs) == IntVal("uint64", ZeroExtend(bs))
        u8(v) == IntVal("uint64", ZeroExtend(<<v>>))
        i8(v) == IntVal("int8", SignExtend(<<v>>))
        i16(bs) == IntVal("int16", SignExtend(bs))
        i32(bs) == IntVal("int32", SignExtend(bs))
        i64(bs) == IntVal("int64", bs)
        f32(bs) == Float32(bs)
    IN
    CASE fixKind(b) = "positive fixint" -> Ok(IntVal("int64", ZeroExtend(<<b>>)), p)
      [] fixKind(b) = "negative fixint" -> Ok(IntVal("int64", SignExtend(<<b>>)), p)
      [] fixKind(b) = "fixstr" -> readString(buf, p, b % 32)
      [] fixKind(b) = "fixarray" -> readArrayV1(buf, p, b % 16)
      [] fixKind(b) = "fixmap" -> readMapV1(buf, p, b % 16)
      [] b = 192 -> Ok(Nil, p)
      [] b = 194 -> Ok(Bool(FALSE), p)
      [] b = 195 -> Ok(Bool(TRUE), p)
      [] b = 204 -> one(u8)
      [] b = 205 -> fixed(2, u64)
      [] b = 206 -> fixed(4, u64)
      [] b = 207 -> fixed(8, u64)
      [] b = 208 -> one(i8)
      [] b = 209 -> fixed(2, i16)
      [] b = 210 -> fixed(4, i32)
      [] b = 211 -> fixed(8, i64)
      [] b = 202 -> fixed(4, f32)
      [] b = 203 -> fixed(8, decodeFloat64)
      [] b = 217 -> LET r == ReadByte(buf, p) IN readString(buf, r.pos, r.b)
      [] b = 218 -> sized(2, Len16, readString)
      [] b = 220 -> sized(2, Len16, readArrayV1)
      [] b = 221 -> sized(4, Len32, readArrayV1)
      [] b = 222 -> sized(2, Len16, readMapV1)
      [] b = 223 -> sized(4, Len32, readMapV1)
      [] OTHER -> [err |-> "unsupported byte", bad |-> b, val |-> Nil, pos |-> p]

readArrayFromV1(buf, pos, i, length, arr) ==
    IF ~(i < length) THEN Ok(Arr(arr), pos)
    ELSE LET r == decodeValueV1(buf, pos) IN
         IF r.err # "" THEN r
         ELSE readArrayFromV1(buf, r.pos, i + 1, length, Append(arr, r.val))

readMapFromV1(buf, pos, i, length, m) ==
    IF ~(i < length) THEN Ok(Map(m), pos)
    ELSE LET k == decodeValueV1(buf, pos) IN
         IF k.err # "" THEN k
         ELSE IF k.val.t # "string" THEN Fail("non-string map key", k.pos)
         ELSE LET r == decodeValueV1(buf, k.pos) IN
              IF r.err # "" THEN r
              ELSE readMapFromV1(buf, r.pos, i + 1, length,
                       [x \in DOMAIN m \cup {k.val.s} |->
                           IF x = k.val.s THEN r.val ELSE m[x]])

(***************************************************************************)
(* encoding/json on the decoder's side.  A JSON text is modelled by its    *)
(* tree; a number of the text is the exact decimal of the Go value, which  *)
(* loses the Go type: "jint" a signed integer, "juint" an unsigned one,    *)
(* "jfloat" the shortest decimal that parses back to the same float64.     *)
(***************************************************************************)
RECURSIVE Marshalable(_)
\* json.Marshal fails on NaN and the infinities (UnsupportedValueError)
Marshalable(v) ==
    CASE v.t = "float64" -> IsFinite(v.w)
      [] v.t = "float32" -> (v.w[1] % 128) * 2 + (v.w[2] \div 128) # 255
      [] v.t = "array" -> \A i \in 1..Len(v.a) : Marshalable(v.a[i])
      [] v.t = "map" -> \A k \in DOMAIN v.m : Marshalable(v.m[k])
      [] OTHER -> TRUE

RECURSIVE Marshal(_)
Marshal(v) ==
    CASE v.t \in SignedKinds -> [t |-> "jint", w |-> v.w]
      [] v.t \in UnsignedKinds -> [t |-> "juint", w |-> v.w]
      [] v.t = "float64" -> [t |-> "jfloat", w |-> v.w]
      [] v.t = "float32" -> [t |-> "jfloat32", w |-> v.w]
      [] v.t = "array" -> Arr([i \in 1..Len(v.a) |-> Marshal(v.a[i])])
      [] v.t = "map" -> Map([k \in DOMAIN v.m |-> Marshal(v.m[k])])
      [] OTHER -> v

RECURSIVE Unmarshal(_)
\* json.Unmarshal into interface{}: every number becomes the nearest float64
Unmarshal(j) ==
    CASE j.t = "jint" -> Float64(I64ToF64(j.w))
      [] j.t = "juint" -> Float64(U64ToF64(j.w))
      [] j.t = "jfloat" -> Float64(j.w)
      [] j.t = "array" -> Arr([i \in 1..Len(j.a) |-> Unmarshal(j.a[i])])
      [] j.t = "map" -> Map([k \in DOMAIN j.m |-> Unmarshal(j.m[k])])
      [] OTHER -> j

NoJSON == [t |-> "none"]

\* DecodeMsgPackToJSON that takes an empty buffer for the encoding of null
DecodeMsgPackToJSONEmptyNull(data) ==
    LET r == IF data = <<>> THEN Ok(Nil, 0) ELSE decodeValue(data, 0) IN
    IF r.err # "" THEN [err |-> r.err, bad |-> r.bad, json |-> NoJSON]
    ELSE IF ~Marshalable(r.val)
    THEN [err |-> "json: unsupported value", bad |-> -1, json |-> NoJSON]
    ELSE [err |-> "", bad |-> -1, json |-> Marshal(r.val)]

\* DecodeMsgPackToJSON that rejects a buffer with bytes left after the value
DecodeMsgPackToJSONStrict(data) ==
    LET r == decodeValue(data, 0) IN
    IF r.err # "" THEN [err |-> r.err, bad |-> r.bad, json |-> NoJSON]
    ELSE IF r.pos < BLen(data)
    THEN [err |-> "trailing bytes", bad |-> -1, json |-> NoJSON]
    ELSE IF ~Marshalable(r.val)
    THEN [err |-> "json: unsupported value", bad |-> -1, json |-> NoJSON]
    ELSE [err |-> "", bad |-> -1, json |-> Marshal(r.val)]

\* DecodeMsgPackToJSON: (JSON bytes, error)
DecodeMsgPackToJSON(data) ==
    LET r == decodeValue(data, 0) IN
    IF r.err # "" THEN [err |-> r.err, bad |-> r.bad, json |-> NoJSON]
    ELSE IF ~Marshalable(r.val)
    THEN [err |-> "json: unsupported value", bad |-> -1, json |-> NoJSON]
    ELSE [err |-> "", bad |-> -1, json |-> Marshal(r.val)]

\* DecodeMsgPackToJSON of the first variant; a panic ends the program
DecodeMsgPackToJSONV1(data) ==
    LET r == decodeValueV1(data, 0) IN
    IF r.err # "" THEN [err |-> r.err, bad |-> r.bad, json |-> NoJSON]
    ELSE IF ~Marshalable(r.val)
    THEN [err |-> "json: unsupported value", bad |-> -1, json |-> NoJSON]
    ELSE [err |-> "", bad |-> -1, json |-> Marshal(r.val)]

(***************************************************************************)
(* Inputs                                                                  *)
(***************************************************************************)
\* how far around each boundary of the encoder the inputs reach
Slack == 1
\* nesting depth of the generated documents
MaxNest == 2
\* encoder outputs of at most this many bytes are cut at every length
CutAllBelow == 80

\* the iteration orders tried: seeds 0..MaxSeed
MaxSeed == 119
StrFill(L, c) == [i \in 1..L |-> c]

\* a + 1 and a - 1 modulo 2^64
Inc64(a) == Neg64([k \in 1..8 |-> 255 - a[k]])
Dec64(a) == [k \in 1..8 |-> 255 - Neg64(a)[k]]
RECURSIVE Up64(_, _), Down64(_, _)
Up64(a, d) == IF d = 0 THEN {a} ELSE {a} \cup Up64(Inc64(a), d - 1)
Down64(a, d) == IF d = 0 THEN {a} ELSE {a} \cup Down64(Dec64(a), d - 1)
\* the words within Slack below and above a (a - Slack + 1 .. a + Slack)
Around(a) == Down64(a, Slack - 1) \cup Up64(a, Slack)

\* int64 inputs: both sides of every range test of encodeSignedInt and of
\* encodeUnsignedInt, and the ends of the range
IntInputs ==
    UNION {Around(I64(k)) :
              k \in {-1, 127, 255, 32767, 65535, 2147483647,
                     -33, -129, -32769, -2147483647 - 1}}
    \cup Around(<<255, 255, 255, 255, 127, 255, 255, 255>>)
    \cup Around(<<0, 0, 0, 0, 255, 255, 255, 255>>)
    \cup Up64(MinInt64, Slack) \cup Down64(MaxInt64, Slack)
    \cup {I64(k) : k \in -32..-1}
    \cup {I64(26), I64(30), I64(200), I64(-56), <<0, 32, 0, 0, 0, 0, 0, 0>>}

\* 1.5, 0.1, -0.5, -0.0, 2^51 + 0.5
FracFloats ==
    { <<63, 248, 0, 0, 0, 0, 0, 0>>, <<63, 185, 153, 153, 153, 153, 153, 154>>,
      <<191, 224, 0, 0, 0, 0, 0, 0>>, <<128, 0, 0, 0, 0, 0, 0, 0>>,
      <<67, 32, 0, 0, 0, 0, 0, 1>> }
\* 2^63, 1e19, -1e19, 1e300: finite and outside the int64 range
HugeFloats ==
    { <<67, 224, 0, 0, 0, 0, 0, 0>>, <<67, 225, 88, 228, 96, 145, 61, 0>>,
      <<195, 225, 88, 228, 96, 145, 61, 0>>, <<126, 55, 228, 60, 136, 0, 117, 156>> }
\* the numbers a JSON text can hold: finite float64
NumInputs == {I64ToF64(k) : k \in IntInputs} \cup FracFloats \cup HugeFloats

\* string lengths on both sides of every length class, and beyond 16 bits
StrLens ==
    {0, 1} \cup UNION {(b - Slack + 1)..(b + Slack) : b \in {FixStrMax, Str8Max, Len16Max}}
StrInputs == {BFill(L, 97) : L \in StrLens}

sDeviceId == Bytes(<<100, 101, 118, 105, 99, 101, 73, 100>>)
sC1234567 == Bytes(<<67, 49, 50, 51, 52, 53, 54, 55>>)
sModel == Bytes(<<109, 111, 100, 101, 108>>)
sAxis == Bytes(<<65, 88, 73, 83, 45, 81, 51, 53, 49, 53, 45, 76, 86>>)
sFps == Bytes(<<102, 112, 115>>)
sResolution == Bytes(<<114, 101, 115, 111, 108, 117, 116, 105, 111, 110>>)
s1920x1080 == Bytes(<<49, 57, 50, 48, 120, 49, 48, 56, 48>>)
sEnabled == Bytes(<<101, 110, 97, 98, 108, 101, 100>>)

Num(k) == Float64(I64ToF64(I64(k)))

\* {"deviceId":"C1234567","model":"AXIS-Q3515-LV","fps":30,
\*  "resolution":"1920x1080","enabled":true}
CamDoc ==
    Map([k \in {sDeviceId, sModel, sFps, sResolution, sEnabled} |->
            CASE k = sDeviceId -> Str(sC1234567)
              [] k = sModel -> Str(sAxis)
              [] k = sFps -> Num(30)
              [] k = sResolution -> Str(s1920x1080)
              [] OTHER -> Bool(TRUE)])

\* the buffer of TestDecodeFromHexString
HexVector ==
    Bytes(<<133, 168, 100, 101, 118, 105, 99, 101, 73, 100, 168, 67, 49, 50, 51, 52,
    53, 54, 55, 165, 109, 111, 100, 101, 108, 173, 65, 88, 73, 83, 45, 81,
    51, 53, 49, 53, 45, 76, 86, 163, 102, 112, 115, 30, 169, 114, 101, 115,
    111, 108, 117, 116, 105, 111, 110, 169, 49, 57, 50, 48, 120, 49, 48, 56,
    48, 167, 101, 110, 97, 98, 108, 101, 100, 195>>)

Leaves ==
    {Nil, Bool(TRUE), Bool(FALSE)} \cup {Float64(f) : f \in NumInputs}
    \cup {Str(x) : x \in StrInputs}

\* keys "a", "b", ... of a generated map
KeyOf(i) == Bytes(<<96 + i>>)
ArrOf(L, v) == Arr([i \in 1..L |-> v])
MapOf(L, v) == Map([k \in {KeyOf(i) : i \in 1..L} |-> v])
ContainerLens == {0, 1, 2} \cup (FixLenMax - Slack + 1)..(FixLenMax + Slack)

RECURSIVE Nested(_)
\* documents of nesting depth d built on a few leaves
Nested(d) ==
    IF d = 0 THEN {Nil, Num(1), Num(200), Str(Bytes(<<97>>)), Str(BFill(FixStrMax + 1, 98))}
    ELSE LET inner == Nested(d - 1) IN
         inner
         \cup {ArrOf(L, v) : L \in {1, 2}, v \in inner}
         \cup {MapOf(L, v) : L \in {1, 2}, v \in inner}

Docs ==
    Leaves
    \cup {ArrOf(L, Nil) : L \in ContainerLens}
    \cup {MapOf(L, Num(L)) : L \in ContainerLens}
    \cup Nested(MaxNest)
    \cup {CamDoc, Map([k \in {sFps, <<>>} |-> Arr(<<Num(-33), Str(sAxis), CamDoc>>)])}

\* JSON texts: the ones that parse, and the ones json.Unmarshal rejects
\* (the empty text, a text with a missing comma)
BadJSON == [valid |-> FALSE, v |-> Nil]
JSONInputs == {[valid |-> TRUE, v |-> d] : d \in Docs} \cup {BadJSON}

\* Go values handed to encodeValue directly
GoInputs ==
    {IntVal("int64", k) : k \in IntInputs} \cup {IntVal("uint64", k) : k \in IntInputs}
    \cup {IntVal("int8", I64(-33)), IntVal("uint8", I64(200)), Other,
          Float32(<<63, 192, 0, 0>>), Arr(<<Nil, Other, Nil>>),
          Map([k \in {KeyOf(1)} |-> Other])}

\* what follows a leading byte on the wire: nothing, too little, a 16-bit and
\* a 32-bit length of 1 with one entry, one-byte lengths, runs of empty
\* strings (0xa0) and of nil (0xc0), a NaN, pairs with a repeated key
Payloads ==
    { <<>>, <<0>>, <<1, 97, 192>>, <<0, 1, 160, 192>>, <<0, 1, 97, 192>>,
      <<0, 0, 0, 1, 160, 192>>, <<0, 0, 0, 2, 160, 192, 160, 195, 1>>,
      StrFill(32, 160), StrFill(32, 192), StrFill(9, 255),
      <<127, 248, 0, 0, 0, 0, 0, 1>>,
      <<161, 97, 1, 161, 97, 2, 161, 98, 3>> \o StrFill(26, 192),
      <<255, 255, 255, 255, 192, 192>> }

\* encodings of values that are not strings
NonStringWire ==
    { <<5>>, <<255>>, <<192>>, <<194>>, <<195>>, <<204, 200>>, <<205, 1, 0>>,
      <<206, 0, 1, 0, 0>>, <<207, 0, 0, 0, 1, 0, 0, 0, 0>>, <<208, 128>>,
      <<209, 128, 0>>, <<210, 128, 0, 0, 0>>, <<211, 128, 0, 0, 0, 0, 0, 0, 0>>,
      <<202, 63, 192, 0, 0>>, <<203, 63, 248, 0, 0, 0, 0, 0, 0>>,
      <<144>>, <<145, 160>>, <<128>>, <<129, 160, 160>>, <<220, 0, 0>>,
      <<222, 0, 0>> }

\* the three map headers for a map of L entries
MapHeaders(L) == { <<128 + L>>, <<222, 0, L>>, <<223, 0, 0, 0, L>> }

\* maps with a non-string at a key position: first key, second key, nested
BadKeyWire ==
    {h \o k \o <<192>> : h \in MapHeaders(1), k \in NonStringWire}
    \cup {h \o <<161, 97, 192>> \o k \o <<192>> : h \in MapHeaders(2), k \in NonStringWire}
    \cup {<<145>> \o h \o k \o <<192>> : h \in MapHeaders(1), k \in {<<5>>, <<192>>}}
    \cup {h \o <<161, 97>> \o <<129>> \o k \o <<192>> : h \in MapHeaders(1), k \in {<<5>>, <<144>>}}

\* the bytes of the payload or length field that follows a tag
FieldWidth(b) ==
    CASE b \in {204, 208, 217} -> 1
      [] b \in {205, 209, 218, 220, 222} -> 2
      [] b \in {202, 206, 210, 221, 223} -> 4
      [] b \in {203, 207, 211} -> 8
      [] OTHER -> 0

FixedWidthTags == {b \in 0..255 : FieldWidth(b) > 0}

\* a one-element array whose element is a tag with a field cut short
NestedShortWire ==
    {<<145, b>> \o StrFill(n, 1) : b \in FixedWidthTags, n \in {0, 1, 3, 7}}

WireInputs ==
    {<<>>, HexVector, BCat(HexVector, Bytes(<<192>>))}
    \cup {Bytes(<<b>> \o pl) : b \in 0..255, pl \in Payloads}
    \cup {Bytes(w) : w \in BadKeyWire \cup NestedShortWire}

(***************************************************************************)
(* The codec in use: a JSON text is encoded, the buffer possibly cut short *)
(* (TestDecodeTruncatedData), decoded, and the JSON that comes out parsed  *)
(* again (TestEncodeAndDecodeAllJSONs); or a Go value is handed to         *)
(* encodeValue; or a buffer from elsewhere is decoded                      *)
(* (TestDecodeFromHexString).                                              *)
(***************************************************************************)
VARIABLES
    origin,     \* "json", "value" or "wire": where the input comes from
    arch,       \* the platform of the build
    input,      \* the JSON text (as its parse) or the Go value to encode
    enc,        \* what the encoder returned
    wire,       \* the buffer handed to the decoder
    dv,         \* what the top-level decodeValue returned
    out,        \* what DecodeMsgPackToJSON returned
    parsed,     \* json.Unmarshal of the decoder's JSON
    pc

vars == <<origin, arch, input, enc, wire, dv, out, parsed, pc>>

NoEnc == [err |-> "none", out |-> <<>>]
NoDv == [err |-> "none", bad |-> -1, val |-> Nil, pos |-> 0]
NoOut == [err |-> "none", bad |-> -1, json |-> NoJSON]

Init ==
    /\ arch \in Archs
    /\ \/ origin = "json" /\ input \in JSONInputs /\ wire = <<>>
       \/ origin = "value" /\ input \in {[valid |-> TRUE, v |-> g] : g \in GoInputs}
                           /\ wire = <<>>
       \/ origin = "wire" /\ input = BadJSON /\ wire \in WireInputs
    /\ enc = NoEnc
    /\ dv = NoDv
    /\ out = NoOut
    /\ parsed = NoJSON
    /\ pc = "start"

RECURSIVE Fact(_, _), MaxKeys(_)
\* n!, or some number above cap when n! is above cap
Fact(n, cap) ==
    IF n <= 1 THEN 1
    ELSE LET f == Fact(n - 1, cap) IN IF f > cap THEN f ELSE n * f

\* the size of the largest map of a value tree
MaxKeys(v) ==
    LET most(S) == IF S = {} THEN 0 ELSE CHOOSE x \in S : \A y \in S : y <= x IN
    CASE v.t = "array" -> most({MaxKeys(v.a[i]) : i \in 1..Len(v.a)})
      [] v.t = "map" ->
            most({Cardinality(DOMAIN v.m)} \cup {MaxKeys(v.m[k]) : k \in DOMAIN v.m})
      [] OTHER -> 0

\* the seeds that order the maps of v differently: a map of n keys has n!
\* orders, and seeds that agree modulo n! order it alike
Seeds(v) == {k \in 0..MaxSeed : k < Fact(MaxKeys(v), MaxSeed)}

\* msgpackData, err := msgpack.EncodeJSONToMsgPack(jsonBytes)
EncodeJSON ==
    /\ pc = "start"
    /\ origin = "json"
    /\ \E seed \in Seeds(input.v) : enc' = EncodeJSONToMsgPack(input, arch, seed)
    /\ wire' = enc'.out
    /\ pc' = IF enc'.err = "" THEN "encoded" ELSE "failed"
    /\ UNCHANGED <<origin, arch, input, dv, out, parsed>>

\* encodeValue(buf, v) on a Go value; the buffer keeps what was written
EncodeGo ==
    /\ pc = "start"
    /\ origin = "value"
    /\ \E seed \in Seeds(input.v) : enc' = encodeValue(input.v, arch, seed)
    /\ wire' = enc'.out
    /\ pc' = IF enc'.err = "" THEN "encoded" ELSE "failed"
    /\ UNCHANGED <<origin, arch, input, dv, out, parsed>>

\* the lengths at which an encoder output is cut: every proper prefix of a
\* short buffer, the first and last few of a long one
Cuts(b) ==
    IF BLen(b) <= CutAllBelow THEN 0..(BLen(b) - 1)
    ELSE {k \in 0..5 \cup {BLen(b) - 5, BLen(b) - 1} : k < BLen(b)}

\* truncated := msgpackData[:k]
Truncate ==
    /\ pc = "encoded"
    /\ \E k \in Cuts(wire) : wire' = BTake(wire, k)
    /\ pc' = "truncated"
    /\ UNCHANGED <<origin, arch, input, enc, dv, out, parsed>>

\* decodedJSON, err := msgpack.DecodeMsgPackToJSON(data)
Decode ==
    /\ \/ pc = "start" /\ origin = "wire"
       \/ pc \in {"encoded", "truncated"}
    /\ dv' = decodeValue(wire, 0)
    /\ out' = DecodeMsgPackToJSON(wire)
    /\ pc' = "decoded"
    /\ UNCHANGED <<origin, arch, input, enc, wire, parsed>>

\* json.Unmarshal(decodedJSON, &decoded)
Reparse ==
    /\ pc = "decoded"
    /\ out.err = ""
    /\ parsed' = Unmarshal(out.json)
    /\ pc' = "parsed"
    /\ UNCHANGED <<origin, arch, input, enc, wire, dv, out>>

Next == EncodeJSON \/ EncodeGo \/ Truncate \/ Decode \/ Reparse

Spec == Init /\ [][Next]_vars

\* the same program built with the encoder that ranges over the map
EncodeJSONRange ==
    /\ pc = "start"
    /\ origin = "json"
    /\ \E seed \in Seeds(input.v) :
            enc' = EncodeJSONToMsgPackRange(input, arch, seed)
    /\ wire' = enc'.out
    /\ pc' = IF enc'.err = "" THEN "encoded" ELSE "failed"
    /\ UNCHANGED <<origin, arch, input, dv, out, parsed>>

\* the same program built with the first decodeValue of decode.go
DecodeV1 ==
    /\ \/ pc = "start" /\ origin = "wire"
       \/ pc \in {"encoded", "truncated"}
    /\ dv' = decodeValueV1(wire, 0)
    /\ out' = DecodeMsgPackToJSONV1(wire)
    /\ pc' = "decoded"
    /\ UNCHANGED <<origin, arch, input, enc, wire, parsed>>

NextV1 == EncodeJSON \/ EncodeGo \/ Truncate \/ DecodeV1 \/ Reparse

SpecV1 == Init /\ [][NextV1]_vars

NextRange == EncodeJSONRange \/ Truncate \/ Decode \/ Reparse

SpecRange == Init /\ [][NextRange]_vars

(***************************************************************************)
(* Properties                                                              *)
(***************************************************************************)
RECURSIVE DeepEq(_, _)
\* deep equality of two value trees, numbers compared as numbers
DeepEq(a, b) ==
    /\ a.t = b.t
    /\ CASE a.t = "float64" -> F64Eq(a.w, b.w)
         [] a.t = "array" ->
               /\ Len(a.a) = Len(b.a)
               /\ \A i \in 1..Len(a.a) : DeepEq(a.a[i], b.a[i])
         [] a.t = "map" ->
               /\ DOMAIN a.m = DOMAIN b.m
               /\ \A k \in DOMAIN a.m : DeepEq(a.m[k], b.m[k])
         [] OTHER -> a = b

\* the buffer handed to the decoder is the encoder's whole output
Untruncated == origin # "wire" /\ enc.err = "" /\ wire = enc.out

\* C1: a JSON document that is encoded and then decoded comes back: the decode
\* succeeds, and the JSON it returns parses to a tree deep-equal to the parse
\* of the document, numbers compared as numbers.
C1_RoundTrip ==
    (origin = "json" /\ input.valid /\ Untruncated /\ pc \in {"decoded", "parsed"})
        => /\ out.err = ""
           /\ pc = "parsed" => DeepEq(parsed, input.v)

\* C2: decoding a proper prefix of an encoder output returns an error and no
\* value.
C2_TruncationDetected ==
    (origin # "wire" /\ enc.err = "" /\ pc = "decoded" /\ BLen(wire) < BLen(enc.out))
        => out.err # "" /\ out.json = NoJSON

\* C3: decoding the buffer of TestDecodeFromHexString succeeds and yields
\* exactly {"deviceId":"C1234567","model":"AXIS-Q3515-LV","fps":30,
\* "resolution":"1920x1080","enabled":true}.
C3_HexVectorYieldsCamDoc ==
    (origin = "wire" /\ wire = HexVector)
        => /\ pc = "decoded" => out.err = ""
           /\ pc = "parsed" => DeepEq(parsed, CamDoc)

\* the header length and the entry count of a map that starts the buffer
MapHdrLen(w) == IF BAt(w, 1) = 222 THEN 3 ELSE IF BAt(w, 1) = 223 THEN 5 ELSE 1
MapCount(w) ==
    IF BAt(w, 1) = 222 THEN Len16(Plain(w, 1, 2))
    ELSE IF BAt(w, 1) = 223 THEN Len32(Plain(w, 1, 4))
    ELSE BAt(w, 1) % 16

\* the buffer is a map whose first key position holds a value that decodes,
\* and decodes to something other than a string
FirstKeyNotString ==
    /\ wire # <<>>
    /\ BAt(wire, 1) \in 128..143 \cup {222, 223}
    /\ BLen(wire) >= MapHdrLen(wire)
    /\ MapCount(wire) >= 1
    /\ LET k == decodeValue(wire, MapHdrLen(wire)) IN
       k.err = "" /\ k.val.t # "string"

\* C4: a map (fixmap, map16 or map32) with a non-string value at a key
\* position (the first key, a later key, or a key of a nested map) makes the
\* decode fail with "non-string map key" and return no value.
C4_NonStringKeyRejected ==
    (pc = "decoded" /\ origin = "wire"
       /\ (wire \in {Bytes(w) : w \in BadKeyWire} \/ FirstKeyNotString))
        => /\ dv.err = "non-string map key"
           /\ dv.val = Nil
           /\ out.err = "non-string map key"
           /\ out.json = NoJSON

C4_Witness ==
    /\ pc = "decoded"
    /\ wire = Bytes(<<222, 0, 2, 161, 97, 192, 208, 128, 192>>)
    /\ out.err = "non-string map key"
    /\ out.json = NoJSON

\* C5: decoding a zero-length buffer returns an error and no output; encoding
\* an empty or malformed JSON text returns an error and no bytes.
C5_EmptyInput ==
    /\ (pc = "decoded" /\ wire = <<>>) => (out.err # "" /\ out.json = NoJSON)
    /\ (origin = "json" /\ ~input.valid /\ pc # "start")
          => (pc = "failed" /\ enc.err # "" /\ enc.out = <<>>)

C5_Witness ==
    /\ pc = "decoded"
    /\ origin = "wire"
    /\ wire = <<>>
    /\ out.err = "empty buffer"
    /\ out.json = NoJSON

\* the bytes outside the wire tag table
UnknownTags == {193} \cup 196..201 \cup 212..216 \cup {219}

\* the row of the wire tag table that holds the byte b
TableRow(b) ==
    CASE b \in 0..127 -> "positive fixint"
      [] b \in 128..143 -> "fixmap"
      [] b \in 144..159 -> "fixarray"
      [] b \in 160..191 -> "fixstr"
      [] b = 192 -> "nil"
      [] b = 194 -> "false"
      [] b = 195 -> "true"
      [] b = 202 -> "float32"
      [] b = 203 -> "float64"
      [] b \in 204..207 -> "uint"
      [] b \in 208..211 -> "int"
      [] b = 217 -> "str8"
      [] b = 218 -> "str16"
      [] b = 220 -> "array16"
      [] b = 221 -> "array32"
      [] b = 222 -> "map16"
      [] b = 223 -> "map32"
      [] b \in 224..255 -> "negative fixint"
      [] OTHER -> "none"

\* r is what the handler of the row of w[1] returns on the buffer w
RowHandled(w, r) ==
    LET b == BAt(w, 1)
        row == TableRow(b)
        \* a fixed-width payload of n bytes
        payload(n) == Plain(w, 1, n)
        short(n) == BLen(w) < 1 + n
        number(n, t, word(_)) ==
            IF short(n) THEN r.err \in {"EOF", "unexpected EOF"} /\ r.val = Nil
            ELSE r.err = "" /\ r.pos = 1 + n /\ r.val.t \in t /\ r.val.w = word(payload(n))
        same(bs) == bs
        \* a string of L bytes after a header of h bytes
        str(h, L) ==
            IF BLen(w) < h + L THEN r.err = "unexpected EOF" /\ r.val = Nil
            ELSE r = Ok(Str(BTake(BDrop(w, h), L)), h + L)
        \* a length field of n bytes in front of a body
        sized(n, body) ==
            IF short(n) THEN r.err \in {"EOF", "unexpected EOF"} /\ r.val = Nil
            ELSE body
    IN
    CASE row = "positive fixint" -> r = Ok(IntVal("int64", I64(b)), 1)
      [] row = "negative fixint" -> r = Ok(IntVal("int64", I64(b - 256)), 1)
      [] row = "nil" -> r = Ok(Nil, 1)
      [] row = "false" -> r = Ok(Bool(FALSE), 1)
      [] row = "true" -> r = Ok(Bool(TRUE), 1)
      [] row = "uint" -> number(Pow2(b - 204), {"uint64"}, ZeroExtend)
      [] row = "int" -> number(Pow2(b - 208), SignedKinds, SignExtend)
      [] row = "float32" -> number(4, {"float32"}, same)
      [] row = "float64" -> number(8, {"float64"}, same)
      [] row = "fixstr" -> str(1, b - 160)
      [] row = "str8" -> sized(1, str(2, BAt(w, 2)))
      [] row = "str16" -> sized(2, str(3, BAt(w, 2) * 256 + BAt(w, 3)))
      [] row = "fixarray" -> r = readArray(w, 1, b - 144)
      [] row = "array16" -> sized(2, r = readArray(w, 3, BAt(w, 2) * 256 + BAt(w, 3)))
      [] row = "array32" -> sized(4, r = readArray(w, 5, Len32(payload(4))))
      [] row = "fixmap" -> r = readMap(w, 1, b - 128)
      [] row = "map16" -> sized(2, r = readMap(w, 3, BAt(w, 2) * 256 + BAt(w, 3)))
      [] row = "map32" -> sized(4, r = readMap(w, 5, Len32(payload(4))))
      [] OTHER -> r.err = "unsupported byte" /\ r.bad = b /\ r.val = Nil

\* C6: decodeValue returns the "unsupported byte" error naming the leading
\* byte exactly when that byte is 0xc1, 0xc4-0xc9, 0xd4-0xd8 or 0xdb; every
\* other leading byte gets the handler of its row of the wire tag table.
C6_UnknownTag ==
    (pc = "decoded" /\ wire # <<>>)
        => /\ (dv.err = "unsupported byte" /\ dv.bad = BAt(wire, 1))
                 <=> BAt(wire, 1) \in UnknownTags
           /\ BAt(wire, 1) \notin UnknownTags => TableRow(BAt(wire, 1)) # "none"
           /\ RowHandled(wire, dv)

C6_Witness ==
    /\ pc = "decoded"
    /\ origin = "wire"
    /\ wire # <<>>
    /\ BAt(wire, 1) = 219
    /\ dv.err = "unsupported byte"
    /\ dv.bad = 219

\* the JSON numbers 127 and 128
Num127 == Num(127)
Num128 == Num(128)

\* C7: encoding the number 127 emits the single byte 0x7f, and encoding the
\* number 128 emits the uint8 tag 0xcc followed by 0x80.
C7_Boundary127_128 ==
    (origin = "json" /\ pc = "encoded")
        => /\ input.v = Num127 => wire = Bytes(<<127>>)
           /\ input.v = Num128 => wire = Bytes(<<204, 128>>)

\* the JSON numbers -33 .. -1
NegNums == [k \in -33..-1 |-> Num(k)]

\* C8: every n in -32..-1 is encoded as the single negative-fixint byte whose
\* sign extension is n, -33 is encoded as the int8 tag 0xd0 and one
\* two's-complement byte, and decoding either encoding returns n.
C8_NegativeFixint ==
    (origin # "wire" /\ input.v.t \in {"float64", "int64"})
        => \A k \in -33..-1 :
              (input.v = NegNums[k] \/ input.v = IntVal("int64", I64(k)))
                 => /\ pc = "encoded"
                          => /\ wire = Bytes(IF k >= -32 THEN <<256 + k>>
                                                        ELSE <<208, 256 + k>>)
                             /\ SignExtend(<<BAt(wire, BLen(wire))>>) = I64(k)
                    /\ (pc = "decoded" /\ Untruncated)
                          => /\ dv.err = ""
                             /\ dv.val.t \in SignedKinds
                             /\ dv.val.w = I64(k)
                             /\ out = [err |-> "", bad |-> -1,
                                       json |-> [t |-> "jint", w |-> I64(k)]]

C8_Witness ==
    /\ pc = "decoded"
    /\ origin = "json"
    /\ input.v = NegNums[-32]
    /\ wire = Bytes(<<224>>)
    /\ dv = Ok(IntVal("int64", I64(-32)), 1)

\* C9: a string of L bytes is encoded with fixstr (0xa0|L) when L <= 31, with
\* str8 (0xd9, L) when 32 <= L <= 255, and with str16 (0xda and L in two
\* bytes, most significant first) when L >= 256, followed by its bytes.
C9_StringLengthClasses ==
    (origin = "json" /\ pc = "encoded" /\ input.v.t = "string")
        => LET L == BLen(input.v.s) IN
           IF L <= 31 THEN wire = BCat(Bytes(<<160 + L>>), input.v.s)
           ELSE IF L <= 255 THEN wire = BCat(Bytes(<<217, L>>), input.v.s)
           ELSE /\ BAt(wire, 1) = 218
                /\ BAt(wire, 2) * 256 + BAt(wire, 3) = L
                /\ BDrop(wire, 3) = input.v.s

\* the number of bytes (1, 2, 4 or 8) of the smallest two's-complement
\* payload that can represent n
SmallestWidth(n) ==
    CHOOSE W \in {1, 2, 4, 8} :
        /\ SignExtend(LowBytes(n, W)) = n
        /\ \A V \in {1, 2, 4, 8} : V < W => SignExtend(LowBytes(n, V)) # n

\* C10: for every int64 n outside the fixint ranges, encodeSignedInt writes
\* the tag of the smallest of int8/int16/int32/int64 that can represent n and
\* the payload of that width, and decoding it returns n.
C10_SmallestSignedWidth ==
    (origin = "value" /\ input.v.t = "int64"
       /\ (SLt(input.v.w, I64(-32)) \/ SLt(I64(FixIntMax), input.v.w)))
        => LET n == input.v.w
               W == SmallestWidth(n)
               tag == IF W = 1 THEN 208 ELSE IF W = 2 THEN 209
                      ELSE IF W = 4 THEN 210 ELSE 211
           IN  /\ pc = "encoded" => wire = Bytes(<<tag>> \o LowBytes(n, W))
               /\ (pc = "decoded" /\ Untruncated)
                     => dv.err = "" /\ dv.val.t \in SignedKinds /\ dv.val.w = n

(***************************************************************************)
(* C11  The README's encode example: encoding the JSON text of the camera  *)
(* document gives exactly the bytes the README prints: 85, then the pairs  *)
(* in the order deviceId, model, fps, resolution, enabled, ending in C3.   *)
(***************************************************************************)
\* the bytes printed under "Mode: Encode"
ReadmeHex ==
    Bytes(<<
    133, 168, 100, 101, 118, 105, 99, 101, 73, 100, 168, 67, 49, 50, 51,
    52, 53, 54, 55, 165, 109, 111, 100, 101, 108, 173, 65, 88, 73, 83, 45,
    81, 51, 53, 49, 53, 45, 76, 86, 163, 102, 112, 115, 30, 170, 114, 101,
    115, 111, 108, 117, 116, 105, 111, 110, 169, 49, 57, 50, 48, 120, 49,
    48, 56, 48, 167, 101, 110, 97, 98, 108, 101, 100, 195>>)

C11_ReadmeEncodeExample ==
    (origin = "json" /\ input = [valid |-> TRUE, v |-> CamDoc] /\ pc = "encoded")
        => wire = ReadmeHex

(***************************************************************************)
(* C12  Bounds-checked reads: in every decodeValue of decode.go, a tag     *)
(* with a fixed-width payload or length field (uint8-64, int8-64,          *)
(* float32/64, str8/16, array16/32, map16/32) followed by fewer bytes than *)
(* the width of the field gives an error result: no panic, and no value    *)
(* made from bytes that are not there.  The tag is the first byte of the   *)
(* buffer or the only element of a fixarray.                               *)
(***************************************************************************)
\* the tag at offset `at` has a field that the buffer cuts short
ShortField(w, at) ==
    /\ BLen(w) >= at
    /\ FieldWidth(BAt(w, at)) > 0
    /\ BLen(w) - at < FieldWidth(BAt(w, at))

ShortFieldInWire ==
    \/ ShortField(wire, 1)
    \/ BLen(wire) >= 2 /\ BAt(wire, 1) = 145 /\ ShortField(wire, 2)

C12_BoundsCheckedReads ==
    (pc = "decoded" /\ ShortFieldInWire)
        => /\ dv.err \notin {"", "panic: index out of range"}
           /\ dv.val = Nil
           /\ out.err = dv.err

(***************************************************************************)
(* C13  Uniform 64-bit integers: every integer that decodeValue returns,   *)
(* at any depth of the value and whatever tag it came from, is an int64 or *)
(* a uint64; no decoded value has a narrower integer type.                 *)
(***************************************************************************)
RECURSIVE AllInts64(_)
AllInts64(v) ==
    CASE v.t \in SignedKinds \cup UnsignedKinds -> v.t \in {"int64", "uint64"}
      [] v.t = "array" -> \A i \in 1..Len(v.a) : AllInts64(v.a[i])
      [] v.t = "map" -> \A k \in DOMAIN v.m : AllInts64(v.m[k])
      [] OTHER -> TRUE

C13_Uniform64BitIntegers ==
    (pc = "decoded" /\ dv.err = "") => AllInts64(dv.val)

(***************************************************************************)
(* C14  Integer or float: a number of a JSON text is encoded by the signed *)
(* integer rule if and only if it has no fractional part and lies in the   *)
(* int64 range; every other number is encoded as 0xcb and the 8 bytes of   *)
(* its IEEE-754 bits, most significant first.                              *)
(***************************************************************************)
\* the float64 has no fractional part, read off its exponent and mantissa
Integral(f) ==
    LET e == BiasedExp(f) - 1023 IN
    \/ f[1] % 128 = 0 /\ \A k \in 2..8 : f[k] = 0
    \/ IsFinite(f) /\ e >= 52
    \/ e \in 0..51 /\ \A j \in 0..(51 - e) : BitOf(f, j) = 0

\* -2^63 <= f < 2^63
InInt64Range(f) ==
    BiasedExp(f) - 1023 <= 62 \/ f = <<195, 224, 0, 0, 0, 0, 0, 0>>

C14_IntegerOrFloat ==
    (pc = "encoded" /\ origin = "json" /\ input.v.t = "float64")
        => LET f == input.v.w IN
           IF Integral(f) /\ InInt64Range(f)
           THEN wire = Bytes(encodeSignedInt(F64ToI64(f, arch)))
           ELSE wire = Bytes(<<203>> \o f)

(***************************************************************************)
(* C15  String header matches payload: for every string the encoder       *)
(* writes, the length stated in the header (low bits of a fixstr tag, the  *)
(* byte after d9, the two bytes after da) is the number of payload bytes   *)
(* written after the header, also for strings of more than 65535 bytes.    *)
(***************************************************************************)
\* the bytes of a string header, and the length it states
StrHeaderSize(w) ==
    IF BAt(w, 1) = 217 THEN 2 ELSE IF BAt(w, 1) = 218 THEN 3 ELSE 1
StatedLength(w) ==
    IF BAt(w, 1) = 217 THEN BAt(w, 2)
    ELSE IF BAt(w, 1) = 218 THEN BAt(w, 2) * 256 + BAt(w, 3)
    ELSE BAt(w, 1) % 32

C15_StringHeaderMatchesPayload ==
    (pc = "encoded" /\ origin = "json" /\ input.v.t = "string")
        => /\ BAt(wire, 1) \in 160..191 \cup {217, 218}
           /\ StatedLength(wire) = BLen(wire) - StrHeaderSize(wire)
           /\ BDrop(wire, StrHeaderSize(wire)) = input.v.s

(***************************************************************************)
(* C16  Canonical map order and determinism: the encoder writes the pairs  *)
(* of a map in ascending bytewise order of the keys, so the bytes do not   *)
(* depend on the order in which the map is built or iterated, and encoding *)
(* the same document again gives the same bytes.                           *)
(***************************************************************************)
RECURSIVE KeysOnWire(_, _, _)
\* the keys of the n pairs that start at offset pos, in the order written
KeysOnWire(buf, pos, n) ==
    IF n = 0 THEN <<>>
    ELSE LET k == decodeValue(buf, pos)
             v == decodeValue(buf, k.pos)
         IN  <<k.val.s>> \o KeysOnWire(buf, v.pos, n - 1)

Ascending(keys) ==
    \A i \in 1..Len(keys) : \A j \in (i + 1)..Len(keys) : StrLt(keys[i], keys[j])

RECURSIVE LongestString(_)
\* the length of the longest string or key of a value tree
LongestString(v) ==
    LET most(S) == IF S = {} THEN 0 ELSE CHOOSE x \in S : \A y \in S : y <= x IN
    CASE v.t = "string" -> BLen(v.s)
      [] v.t = "array" -> most({LongestString(v.a[i]) : i \in 1..Len(v.a)})
      [] v.t = "map" ->
            most({BLen(k) : k \in DOMAIN v.m}
                 \cup {LongestString(v.m[k]) : k \in DOMAIN v.m})
      [] OTHER -> 0

RECURSIVE OffsetsAfter(_, _, _)
\* the offsets at which n successive decodeValue calls from pos leave the
\* buffer, up to the first error
OffsetsAfter(buf, pos, n) ==
    IF n = 0 THEN <<>>
    ELSE LET r == decodeValue(buf, pos) IN
         IF r.err # "" THEN <<r.pos>>
         ELSE <<r.pos>> \o OffsetsAfter(buf, r.pos, n - 1)

\* the header size and the number of values that follow the header of a
\* top-level array or map; 0 values for anything else
Container(w) ==
    LET b == BAt(w, 1)
        count16 == BAt(w, 2) * 256 + BAt(w, 3)
    IN  CASE b \in 144..159 -> <<1, b % 16>>
          [] b \in 128..143 -> <<1, 2 * (b % 16)>>
          [] b = 220 /\ BLen(w) >= 3 -> <<3, count16>>
          [] b = 222 /\ BLen(w) >= 3 -> <<3, 2 * count16>>
          [] OTHER -> <<1, 0>>

C17_ExactConsumption ==
    /\ (pc = "decoded" /\ Untruncated /\ LongestString(input.v) <= Len16Max)
          => /\ dv.err = ""
             /\ dv.pos = BLen(wire)
    /\ (pc = "decoded")
          => /\ dv.pos \in 0..BLen(wire)
             /\ wire # <<>> =>
                   LET c == Container(wire)
                       offs == OffsetsAfter(wire, c[1], c[2])
                   IN  \A i \in 1..Len(offs) :
                          /\ offs[i] <= BLen(wire)
                          /\ offs[i] >= (IF i = 1 THEN c[1] ELSE offs[i - 1])

\* the camera document, 74 bytes on the wire, read to its last byte
C17_Witness ==
    /\ pc = "decoded"
    /\ Untruncated
    /\ input.v = CamDoc
    /\ dv.err = ""
    /\ dv.pos = 74
    /\ BLen(wire) = 74

(***************************************************************************)
(* C18  Trailing bytes are accepted: DecodeMsgPackToJSON decodes one value *)
(* from the start of the buffer and succeeds also when bytes remain after  *)
(* it; what it returns is what it returns for the buffer without those     *)
(* bytes, and they cause no error.                                         *)
(***************************************************************************)
C18_TrailingBytesAccepted ==
    (pc = "decoded" /\ dv.err = "" /\ dv.pos < BLen(wire))
        => /\ out = DecodeMsgPackToJSON(BTake(wire, dv.pos))
           /\ out.err \in {"", "json: unsupported value"}
           /\ out.err = "" <=> Marshalable(dv.val)
           /\ out.err = "" => out.json = Marshal(dv.val)

\* the buffer of TestDecodeFromHexString: 73 bytes read, the last one left
C18_Witness ==
    /\ pc = "decoded"
    /\ origin = "wire"
    /\ wire = HexVector
    /\ dv.pos = 73
    /\ BLen(wire) = 74
    /\ out.err = ""

(***************************************************************************)
(* C19  Duplicate keys on the wire: when the N pairs of a map hold the     *)
(* same string key more than once, decoding succeeds, the value of the     *)
(* last pair with that key is the one kept, and the decoded map has fewer  *)
(* than N entries; the keys of a decoded map are exactly the distinct keys *)
(* on the wire.                                                            *)
(***************************************************************************)
RECURSIVE PairsOnWire(_, _, _)
\* the n pairs that start at offset pos, in the order written
PairsOnWire(buf, pos, n) ==
    IF n = 0 THEN <<>>
    ELSE LET k == decodeValue(buf, pos)
             v == decodeValue(buf, k.pos)
         IN  <<[key |-> k.val.s, val |-> v.val]>> \o PairsOnWire(buf, v.pos, n - 1)

\* the buffer starts with a map header and was decoded to a map
DecodedMap ==
    /\ pc = "decoded"
    /\ wire # <<>>
    /\ BAt(wire, 1) \in 128..143 \cup {222, 223}
    /\ dv.err = ""

\* some key is the key of two pairs
Repeats(ps) == \E i \in 1..Len(ps) : \E j \in (i + 1)..Len(ps) : ps[i].key = ps[j].key

C19_DuplicateKeys ==
    DecodedMap
        => LET N == MapCount(wire)
               ps == PairsOnWire(wire, MapHdrLen(wire), N)
               m == dv.val.m
           IN  /\ dv.val.t = "map"
               /\ DOMAIN m = {ps[i].key : i \in 1..N}
               /\ \A i \in 1..N :
                      (\A j \in (i + 1)..N : ps[j].key # ps[i].key)
                          => m[ps[i].key] = ps[i].val
               /\ Repeats(ps) => Cardinality(DOMAIN m) < N
               /\ ~Repeats(ps) => Cardinality(DOMAIN m) = N

\* fixmap of 3 pairs a:1, a:2, b:3 decodes to {a: 2, b: 3}
C19_Witness ==
    /\ DecodedMap
    /\ origin = "wire"
    /\ BAt(wire, 1) = 131
    /\ Repeats(PairsOnWire(wire, 1, 3))
    /\ DOMAIN dv.val.m = {KeyOf(1), KeyOf(2)}
    /\ dv.val.m[KeyOf(1)] = IntVal("int64", I64(2))
    /\ dv.val.m[KeyOf(2)] = IntVal("int64", I64(3))

(***************************************************************************)
(* C20  Decode terminates with progress: decodeValue ends with a value or  *)
(* an error on every buffer; a call that returns a value has consumed at   *)
(* least one byte; so an array or map whose declared count exceeds the     *)
(* bytes that remain ends in an error after at most (remaining bytes + 1)  *)
(* element decodes, however large the declared count.                      *)
(***************************************************************************)
\* the top-level container of w: the size of its header, its declared count
\* and the values per entry (1 for an array, 2 for a map); count 0 for
\* anything else and for a header cut short
Declared(w) ==
    LET b == BAt(w, 1)
        per == IF b \in 128..143 \cup {222, 223} THEN 2 ELSE 1
    IN  CASE b \in 128..159 -> [hdr |-> 1, count |-> b % 16, per |-> per]
          [] b \in {220, 222} /\ BLen(w) >= 3 ->
                [hdr |-> 3, count |-> Len16(Plain(w, 1, 2)), per |-> per]
          [] b \in {221, 223} /\ BLen(w) >= 5 ->
                [hdr |-> 5, count |-> Len32(Plain(w, 1, 4)), per |-> per]
          [] OTHER -> [hdr |-> 1, count |-> 0, per |-> 1]

====
